---- MODULE Spec2Model ----
(***************************************************************************)
(* Oodle: interruptible worker threads (oodle/threads.py), the Mutex used  *)
(* as shield lock (oodle/mutex.py), Shield (oodle/shields.py), the         *)
(* cancellation-aware sleep (oodle/utilities.py) and ThreadGroup           *)
(* (oodle/thread_groups.py).                                               *)
(*                                                                         *)
(* Every Python statement that another thread can observe is one step.     *)
(* Time is counted in ticks of 0.05 s; a blocking call with a timeout      *)
(* returns when its condition holds or when its slice has elapsed.         *)
(***************************************************************************)
EXTENDS Integers, Sequences, FiniteSets, TLC

\* ---------------------------------------------------------------- bounds
NumWorkers == 2      \* threads a ThreadGroup scope may spawn
MaxTimeout == 3      \* largest stop(timeout) budget, in ticks
MaxStopCalls == 2    \* stop() calls the external callers make in total
NumUsers == 2        \* threads that use one Channel
MaxPuts == 2         \* values put into the Channel
MaxOps == 4          \* Channel operations started in total
MaxThunks == 3       \* calls dispatched to the DispatchQueue

\* ------------------------------------------------------ program constants
Step == 2            \* generate_timeout_durations(step=0.1), in ticks

Threads == 1..NumWorkers
Users   == 1..NumUsers
Thunks  == 1..MaxThunks
Dispatchers == {"T1", "T2"}   \* the threads that dispatch to the queue
Instances == {"t1", "t2"}     \* the objects whose wrapped method is called
Extern  == {"s1", "s2"}
Callers == {"main", "s1", "s2", "self"}
FirstWorker == 1..1    \* the worker whose user function may call stop() on its own thread

Min(a, b) == IF a < b THEN a ELSE b

VARIABLES
    \* InterruptibleThread, one per worker
    pc,            \* position of the worker in run()/user code
    exc,           \* exception the worker is unwinding with / ended with
    stopping,      \* _stopping event
    done,          \* _done event
    shieldValue,   \* Mutex: Semaphore._value of _shield_mutex
    shieldHeld,    \* Mutex._held of _shield_mutex
    internalLock,  \* _internal_lock is locked
    stopLock,      \* _stop_lock is locked
    asyncExc,      \* an exception set by PyThreadState_SetAsyncExc is pending
    exception,     \* the Thread handle reports a user exception
    grouped,       \* the thread was spawned with group callbacks
    \* one activation of stop() per caller
    cpc,           \* position of the caller inside stop()
    target,        \* the thread stop() was called on
    timeout,       \* the timeout argument
    started,       \* the timeout generator has read its start time
    elapsed,       \* clock() - start of the timeout generator (saturates)
    waitLeft,      \* remaining slice of the blocking call (-1: no timeout)
    raising,       \* exception propagating out of stop()
    calls,         \* number of stop() calls made by the external callers
    \* ThreadGroup
    threads,       \* _threads
    runningThreads,\* _running_threads
    threadEvent,   \* _thread_event
    groupStopping, \* _stopping
    \* the thread that owns the ThreadGroup scope
    mpc,           \* position in the scope body / wait()
    anyIdx,        \* list iterator index of any(...) in wait()
    stopIdx,       \* list iterator index of _stop_threads
    \* history (not program state)
    passed,        \* the stop() activation passed its early-return guard
    acquired,      \* the stop() activation took the shield semaphore
    hist,          \* record of observations used by the properties
    \* Lock (oodle/locks.py), one Lock object
    locked,        \* Lock._lock is locked
    acquiredLocks, \* the Lock is in the thread's acquired_locks
    lockMode,      \* how the worker took the Lock: "with" statement or acquire() call
    \* Channel (oodle/channels.py), one Channel object
    queue,         \* items of the queue.Queue object
    shut,          \* the queue.Queue object is shut down
    chanNone,      \* Channel._queue is None
    upc,           \* position of each user thread inside a Channel method
    uop,           \* the method the user called
    uval,          \* the value the user puts
    ures,          \* how the user's last call ended
    nput,          \* values handed to put() so far
    nops,          \* Channel operations started so far
    \* history of the Channel
    putLog,        \* values in the order Queue.put enqueued them
    gotLog,        \* values in the order Queue.get returned them
    cbLog,         \* values in the order on_put_callback was invoked
    uAfter,        \* the user's call started after close() had returned
    uBlocked,      \* the user was blocked in Queue.get when shutdown ran
    \* Channel.get_first
    gfpc,          \* position of the caller inside get_first
    result,        \* get_first's local "result" (0: not assigned)
    \* DispatchQueue (oodle/dispatch_queues.py); its worker is thread 1
    dq,            \* DispatchQueue._queue: the (future, func) pairs, by thunk number
    cur,           \* the pair _dispatch took last (0: none)
    derr,          \* the exception _dispatch caught
    fut,           \* state of each thunk's Future
    spc,           \* position of each dispatching thread
    sid,           \* the thunk the dispatching thread submitted last
    nsub,          \* thunks submitted so far
    \* history of the DispatchQueue
    owner,         \* the thread that dispatched each thunk
    subLog,        \* thunks in the order they were enqueued
    ran,           \* thunks in the order _dispatch called them
    nset,          \* how often each Future was resolved
    nested,        \* what the call a thunk made to its own queue did
    \* AbortConcurrentCallsFunctionWrapper (oodle/utilities.py), one wrapped method
    instFn,        \* self.instances: per instance, the registered locked function
    gate,          \* the threading.Lock of each locked function is held
    apc,           \* position of each calling thread
    ainst,         \* the instance the thread calls the method on
    awrap,         \* the locked function the thread got from __get__
    ares,          \* how the thread's last call ended
    acalls,        \* calls made so far
    \* sleep (oodle/utilities.py) called by the worker
    sbudget,       \* sleep(seconds): the budget, in ticks
    selapsed,      \* clock() - start of the sleep's timeout generator
    sdur,          \* _sleep_on_thread's local "duration"
    sres           \* how the sleep ended

thrVars  == <<pc, exc, stopping, done, shieldValue, shieldHeld, internalLock,
              stopLock, asyncExc, exception, grouped>>
callVars == <<cpc, target, timeout, started, elapsed, waitLeft, raising, calls>>
grpVars  == <<threads, runningThreads, threadEvent, groupStopping>>
mainVars == <<mpc, anyIdx, stopIdx>>
histVars == <<passed, acquired, hist>>
lockVars == <<locked, acquiredLocks, lockMode>>
chanVars == <<queue, shut, chanNone, upc, uop, uval, ures, nput, nops,
              putLog, gotLog, cbLog, uAfter, uBlocked>>
firstVars == <<gfpc, result>>
dqVars   == <<dq, cur, derr, fut, spc, sid, nsub, owner, subLog, ran, nset>>
moreVars == <<nested, instFn, gate, apc, ainst, awrap, ares, acalls,
              sbudget, selapsed, sdur, sres>>
extVars  == <<lockVars, chanVars, firstVars, dqVars, moreVars>>
baseVars == <<thrVars, callVars, grpVars, mainVars, histVars>>
vars     == <<baseVars, extVars>>

\* ------------------------------------------------------------- helpers
\* faulty variant: while stopping, every exception counts as an exit exception
IsExitExceptionAnyWhileStopping(e, stp) == e = "ExitThread" \/ stp

\* run(): "exit_exceptions = ExitThread; if stopping: exit_exceptions |= SystemError"
IsExitException(e, stp) == e = "ExitThread" \/ (stp /\ e = "SystemError")

\* Thread.running of the handle a ThreadGroup keeps
running(t) == ~done[t]

\* the worker is between Shield.__enter__ and Shield.__exit__
InShield(t) == pc[t] \in {"sh_set", "shrun", "shsleep", "shselfstop"}

\* list.remove(x)
Remove(s, x) == SelectSeq(s, LAMBDA y : y # x)

\* ------------------------------------------------------- worker: user code
\* Shield.__enter__ -> Mutex.acquire: super().acquire() blocks on the semaphore
ShieldEnter(t) ==
    /\ pc[t] = "run"
    /\ shieldValue[t] > 0
    /\ shieldValue' = [shieldValue EXCEPT ![t] = @ - 1]
    /\ pc' = [pc EXCEPT ![t] = "sh_set"]
    /\ UNCHANGED <<exc, stopping, done, shieldHeld, internalLock, stopLock,
                   asyncExc, exception, grouped>>
    /\ UNCHANGED <<callVars, grpVars, mainVars, histVars>>

\* Mutex.acquire: self._held = True
MutexSetHeld(t) ==
    /\ pc[t] = "sh_set"
    /\ shieldHeld' = [shieldHeld EXCEPT ![t] = TRUE]
    /\ pc' = [pc EXCEPT ![t] = "shrun"]
    /\ UNCHANGED <<exc, stopping, done, shieldValue, internalLock, stopLock,
                   asyncExc, exception, grouped>>
    /\ UNCHANGED <<callVars, grpVars, mainVars, histVars>>

\* Shield.__exit__ -> Mutex.release: super().release()
ShieldExit(t) ==
    /\ pc[t] = "shrun"
    /\ shieldValue' = [shieldValue EXCEPT ![t] = @ + 1]
    /\ pc' = [pc EXCEPT ![t] = "sh_clr"]
    /\ hist' = [hist EXCEPT !.shielded = [c \in Callers |-> FALSE]]
    /\ UNCHANGED <<exc, stopping, done, shieldHeld, internalLock, stopLock,
                   asyncExc, exception, grouped>>
    /\ UNCHANGED <<callVars, grpVars, mainVars, passed, acquired>>

\* Mutex.release: self._held = False; afterwards the with statement is left,
\* normally or with the exception that is propagating
MutexClearHeld(t) ==
    /\ pc[t] = "sh_clr"
    /\ shieldHeld' = [shieldHeld EXCEPT ![t] = FALSE]
    /\ pc' = [pc EXCEPT ![t] = IF exc[t] = "none" THEN "run" ELSE "fin"]
    /\ UNCHANGED <<exc, stopping, done, shieldValue, internalLock, stopLock,
                   asyncExc, exception, grouped>>
    /\ UNCHANGED <<callVars, grpVars, mainVars, histVars>>

\* the user function calls sleep(seconds)
UserSleep(t) ==
    /\ pc[t] \in {"run", "shrun"}
    /\ pc' = [pc EXCEPT ![t] = IF pc[t] = "run" THEN "sleep" ELSE "shsleep"]
    /\ UNCHANGED <<exc, stopping, done, shieldValue, shieldHeld, internalLock,
                   stopLock, asyncExc, exception, grouped>>
    /\ UNCHANGED <<callVars, grpVars, mainVars, histVars>>

\* _sleep_on_thread: next(sleep_duration) raises TimeoutError, sleep returns
\* and the statement after it runs
SleepTimeout(t) ==
    /\ pc[t] \in {"sleep", "shsleep"}
    /\ pc' = [pc EXCEPT ![t] = IF pc[t] = "sleep" THEN "run" ELSE "shrun"]
    /\ hist' = [hist EXCEPT !.ranAfter = @ \/ t \in hist.sleepers]
    /\ UNCHANGED <<exc, stopping, done, shieldValue, shieldHeld, internalLock,
                   stopLock, asyncExc, exception, grouped>>
    /\ UNCHANGED <<callVars, grpVars, mainVars, passed, acquired>>

\* the worker raises ExitThread at a safe point: _sleep_on_thread sees
\* thread.stopping, or a pending asynchronous exception takes effect.
\* Inside a Shield the with statement releases the semaphore on the way out.
Interrupted(t) ==
    /\ \/ pc[t] \in {"sleep", "shsleep"} /\ stopping[t]
       \/ pc[t] \in {"run", "sleep", "shrun", "shsleep"} /\ asyncExc[t]
    /\ exc' = [exc EXCEPT ![t] = "ExitThread"]
    /\ asyncExc' = [asyncExc EXCEPT ![t] = FALSE]
    /\ IF InShield(t)
         THEN /\ shieldValue' = [shieldValue EXCEPT ![t] = @ + 1]
              /\ pc' = [pc EXCEPT ![t] = "sh_clr"]
              /\ hist' = [hist EXCEPT !.shielded = [c \in Callers |-> FALSE]]
         ELSE /\ pc' = [pc EXCEPT ![t] = "fin"]
              /\ UNCHANGED <<shieldValue, hist>>
    /\ UNCHANGED <<stopping, done, shieldHeld, internalLock, stopLock,
                   exception, grouped>>
    /\ UNCHANGED <<callVars, grpVars, mainVars, passed, acquired>>

\* the user function raises an exception of its own
UserRaise(t) ==
    /\ pc[t] \in {"run", "shrun"}
    /\ exc' = [exc EXCEPT ![t] = "Error"]
    /\ IF InShield(t)
         THEN /\ shieldValue' = [shieldValue EXCEPT ![t] = @ + 1]
              /\ pc' = [pc EXCEPT ![t] = "sh_clr"]
         ELSE /\ pc' = [pc EXCEPT ![t] = "fin"]
              /\ UNCHANGED shieldValue
    /\ hist' = [hist EXCEPT
                   !.sleepers = IF grouped[t] /\ mpc \notin {"body"}
                                  THEN @ \cup {u \in Threads \ {t} :
                                                 pc[u] \in {"sleep", "shsleep"}}
                                  ELSE @,
                   !.shielded = IF InShield(t) THEN [c \in Callers |-> FALSE] ELSE @]
    /\ UNCHANGED <<stopping, done, shieldHeld, internalLock, stopLock,
                   asyncExc, exception, grouped>>
    /\ UNCHANGED <<callVars, grpVars, mainVars, passed, acquired>>

\* the user function returns
UserReturn(t) ==
    /\ pc[t] = "run"
    /\ pc' = [pc EXCEPT ![t] = "fin"]
    /\ UNCHANGED <<exc, stopping, done, shieldValue, shieldHeld, internalLock,
                   stopLock, asyncExc, exception, grouped>>
    /\ UNCHANGED <<callVars, grpVars, mainVars, histVars>>

\* ------------------------------------------- worker: InterruptibleThread.run
\* faulty variant: a worker's exception wakes the waiter but does not stop the group
EncounteredExceptionNoStop ==
    IF Len(runningThreads) > 0
      THEN threadEvent' = TRUE /\ UNCHANGED groupStopping
      ELSE UNCHANGED <<groupStopping, threadEvent>>

\* ThreadGroup._thread_encountered_exception, reached through the thread's
\* exception callback: "if not self.running: return; with lock: self.stop()"
GroupEncounteredException ==
    IF Len(runningThreads) > 0
      THEN groupStopping' = TRUE /\ threadEvent' = TRUE
      ELSE UNCHANGED <<groupStopping, threadEvent>>

\* _run_callback: "if callback is not None: callback(*args, **kwargs)"; only a
\* thread spawned with a group has an exception callback
HasCallback(t) == grouped[t]

\* run(): the inner finally takes _internal_lock; the except clause forwards
\* every exception that is not an exit exception to the exception callback,
\* when there is one, and ends: the exception does not leave run()
Finally(t) ==
    /\ pc[t] = "fin"
    /\ ~internalLock[t]
    /\ internalLock' = [internalLock EXCEPT ![t] = TRUE]
    /\ pc' = [pc EXCEPT ![t] = "setdone"]
    /\ IF exc[t] # "none" /\ ~IsExitException(exc[t], stopping[t]) /\ HasCallback(t)
         THEN /\ exception' = [exception EXCEPT ![t] = TRUE]
              /\ GroupEncounteredException
         ELSE UNCHANGED <<exception, groupStopping, threadEvent>>
    /\ UNCHANGED <<exc, stopping, done, shieldValue, shieldHeld, stopLock,
                   asyncExc, grouped>>
    /\ UNCHANGED <<callVars, threads, runningThreads, mainVars, histVars>>

\* run(): outer finally, self.done.set()
SetDone(t) ==
    /\ pc[t] = "setdone"
    /\ done' = [done EXCEPT ![t] = TRUE]
    /\ pc' = [pc EXCEPT ![t] = "cb"]
    /\ UNCHANGED <<exc, stopping, shieldValue, shieldHeld, internalLock,
                   stopLock, asyncExc, exception, grouped>>
    /\ UNCHANGED <<callVars, grpVars, mainVars, histVars>>

\* run(): the stop callback (ThreadGroup._thread_done: remove from the running
\* list, set the event), _internal_lock.release(); the OS thread ends
StopCallback(t) ==
    /\ pc[t] = "cb"
    /\ IF grouped[t]
         THEN /\ runningThreads' = Remove(runningThreads, t)
              /\ threadEvent' = TRUE
         ELSE UNCHANGED <<runningThreads, threadEvent>>
    /\ internalLock' = [internalLock EXCEPT ![t] = FALSE]
    /\ pc' = [pc EXCEPT ![t] = "dead"]
    /\ UNCHANGED <<exc, stopping, done, shieldValue, shieldHeld, stopLock,
                   asyncExc, exception, grouped>>
    /\ UNCHANGED <<callVars, threads, groupStopping, mainVars, histVars>>

\* ------------------------------------------------ generate_timeout_durations
\* "while (elapsed := clock() - start) < timeout" has ended: TimeoutError
Exhausted(T, el) == T # 0 /\ ~(el < T)

\* faulty variant: the generator always yields a full step
DurationFullStep(T, el) == IF T = 0 THEN 0 ELSE Step

\* the value the generator yields: cycle([0]), or min(step, timeout - elapsed)
Duration(T, el) == IF T = 0 THEN 0 ELSE Min(Step, T - el)

\* "self.join(timeout=next(timeout_duration) or None)": -1 stands for None
JoinTimeout(d) == IF d = 0 THEN -1 ELSE d

\* ------------------------------------------------ InterruptibleThread.stop
\* the call itself: the generator object is created, nothing has run yet
BeginStop(c, t, T) ==
    /\ cpc' = [cpc EXCEPT ![c] = "gate_done"]
    /\ target' = [target EXCEPT ![c] = t]
    /\ timeout' = [timeout EXCEPT ![c] = T]
    /\ started' = [started EXCEPT ![c] = FALSE]
    /\ elapsed' = [elapsed EXCEPT ![c] = 0]
    /\ waitLeft' = [waitLeft EXCEPT ![c] = 0]
    /\ raising' = [raising EXCEPT ![c] = "none"]
    /\ passed' = [passed EXCEPT ![c] = FALSE]
    /\ acquired' = [acquired EXCEPT ![c] = FALSE]

\* the three tests of the early return, in the order Python evaluates them
\* (Thread.stop's is_done test reads the same flag first)
DoneIsSet(t)      == done[t]
StoppingIsSet(t)  == stopping[t]
StopLockBusy(t)   == stopLock[t]

GateDone(c) ==
    /\ cpc[c] = "gate_done"
    /\ cpc' = [cpc EXCEPT ![c] = IF DoneIsSet(target[c]) THEN "ret" ELSE "gate_stopping"]
    /\ UNCHANGED <<target, timeout, started, elapsed, waitLeft, raising, calls>>
    /\ UNCHANGED <<thrVars, grpVars, mainVars, histVars>>

GateStopping(c) ==
    /\ cpc[c] = "gate_stopping"
    /\ cpc' = [cpc EXCEPT ![c] = IF StoppingIsSet(target[c]) THEN "ret" ELSE "gate_lock"]
    /\ UNCHANGED <<target, timeout, started, elapsed, waitLeft, raising, calls>>
    /\ UNCHANGED <<thrVars, grpVars, mainVars, histVars>>

\* "not self._stop_lock.acquire(blocking=False)"
GateLock(c) ==
    /\ cpc[c] = "gate_lock"
    /\ IF StopLockBusy(target[c])
         THEN /\ cpc' = [cpc EXCEPT ![c] = "ret"]
              /\ UNCHANGED <<stopLock, passed>>
         ELSE /\ cpc' = [cpc EXCEPT ![c] = "sh_check"]
              /\ stopLock' = [stopLock EXCEPT ![target[c]] = TRUE]
              /\ passed' = [passed EXCEPT ![c] = TRUE]
    /\ UNCHANGED <<target, timeout, started, elapsed, waitLeft, raising, calls>>
    /\ UNCHANGED <<pc, exc, stopping, done, shieldValue, shieldHeld, internalLock,
                   asyncExc, exception, grouped>>
    /\ UNCHANGED <<grpVars, mainVars, acquired, hist>>

\* faulty variant: stop() does not wait for the shield
ShieldLoopSkipped(t) == FALSE

\* "while self.shield.is_held and not self.done.is_set()"
ShieldLoop(t) == shieldHeld[t] /\ ~done[t]

ShieldCheck(c) ==
    /\ cpc[c] = "sh_check"
    /\ cpc' = [cpc EXCEPT ![c] = IF ShieldLoop(target[c]) THEN "sh_next" ELSE "set_stopping"]
    /\ UNCHANGED <<target, timeout, started, elapsed, waitLeft, raising, calls>>
    /\ UNCHANGED <<thrVars, grpVars, mainVars, histVars>>

\* next(timeout_duration) in the shield loop; TimeoutError leaves through the
\* outer finally only
ShieldNext(c) ==
    /\ cpc[c] = "sh_next"
    /\ IF Exhausted(timeout[c], elapsed[c])
         THEN /\ raising' = [raising EXCEPT ![c] = "Timeout"]
              /\ cpc' = [cpc EXCEPT ![c] = "fin_lock"]
              /\ UNCHANGED <<started, waitLeft>>
         ELSE /\ started' = [started EXCEPT ![c] = timeout[c] # 0]
              /\ waitLeft' = [waitLeft EXCEPT ![c] = Duration(timeout[c], elapsed[c])]
              /\ cpc' = [cpc EXCEPT ![c] = "sh_acq"]
              /\ UNCHANGED raising
    /\ UNCHANGED <<target, timeout, elapsed, calls>>
    /\ UNCHANGED <<thrVars, grpVars, mainVars, histVars>>

\* Mutex.acquire(timeout=d): Semaphore.acquire takes the semaphore if it is
\* free within d, and gives up otherwise
ShieldAcquire(c) ==
    /\ cpc[c] = "sh_acq"
    /\ \/ /\ shieldValue[target[c]] > 0
          /\ shieldValue' = [shieldValue EXCEPT ![target[c]] = @ - 1]
          /\ acquired' = [acquired EXCEPT ![c] = TRUE]
       \/ /\ shieldValue[target[c]] = 0
          /\ waitLeft[c] = 0
          /\ UNCHANGED <<shieldValue, acquired>>
    /\ waitLeft' = [waitLeft EXCEPT ![c] = 0]
    /\ cpc' = [cpc EXCEPT ![c] = "sh_sethold"]
    /\ UNCHANGED <<target, timeout, started, elapsed, raising, calls>>
    /\ UNCHANGED <<pc, exc, stopping, done, shieldHeld, internalLock, stopLock,
                   asyncExc, exception, grouped>>
    /\ UNCHANGED <<grpVars, mainVars, passed, hist>>

\* Mutex.acquire: "self._held = True", whatever super().acquire() returned
ShieldSetHeld(c) ==
    /\ cpc[c] = "sh_sethold"
    /\ shieldHeld' = [shieldHeld EXCEPT ![target[c]] = TRUE]
    /\ cpc' = [cpc EXCEPT ![c] = "sh_check"]
    /\ UNCHANGED <<target, timeout, started, elapsed, waitLeft, raising, calls>>
    /\ UNCHANGED <<pc, exc, stopping, done, shieldValue, internalLock, stopLock,
                   asyncExc, exception, grouped>>
    /\ UNCHANGED <<grpVars, mainVars, histVars>>

\* "self._stopping.set()"
SetStopping(c) ==
    /\ cpc[c] = "set_stopping"
    /\ stopping' = [stopping EXCEPT ![target[c]] = TRUE]
    /\ cpc' = [cpc EXCEPT ![c] = "j_check"]
    /\ UNCHANGED <<target, timeout, started, elapsed, waitLeft, raising, calls>>
    /\ UNCHANGED <<pc, exc, done, shieldValue, shieldHeld, internalLock, stopLock,
                   asyncExc, exception, grouped>>
    /\ UNCHANGED <<grpVars, mainVars, histVars>>

\* "while not self.done.is_set()"
JoinCheck(c) ==
    /\ cpc[c] = "j_check"
    /\ cpc' = [cpc EXCEPT ![c] = IF done[target[c]] THEN "fin_rel" ELSE "throw"]
    /\ UNCHANGED <<target, timeout, started, elapsed, waitLeft, raising, calls>>
    /\ UNCHANGED <<thrVars, grpVars, mainVars, histVars>>

\* throw(): "if done or stopping or not _internal_lock.acquire(False): return"
ThrowReturnsEarly(t) == done[t] \/ stopping[t] \/ internalLock[t]

\* "self.throw(ExitThread())" and the next(timeout_duration) that follows it
Throw(c) ==
    /\ cpc[c] = "throw"
    /\ asyncExc' = [asyncExc EXCEPT ![target[c]] = @ \/ ~ThrowReturnsEarly(target[c])]
    /\ IF Exhausted(timeout[c], elapsed[c])
         THEN /\ raising' = [raising EXCEPT ![c] = "Timeout"]
              /\ cpc' = [cpc EXCEPT ![c] = "fin_rel"]
              /\ UNCHANGED <<started, waitLeft>>
         ELSE /\ started' = [started EXCEPT ![c] = timeout[c] # 0]
              /\ waitLeft' = [waitLeft EXCEPT ![c] =
                                 JoinTimeout(Duration(timeout[c], elapsed[c]))]
              /\ cpc' = [cpc EXCEPT ![c] = "join"]
              /\ UNCHANGED raising
    /\ UNCHANGED <<target, timeout, elapsed, calls>>
    /\ UNCHANGED <<pc, exc, stopping, done, shieldValue, shieldHeld, internalLock,
                   stopLock, exception, grouped>>
    /\ UNCHANGED <<grpVars, mainVars, histVars>>

\* threading.Thread.join(timeout): returns when the thread has ended or the
\* timeout has elapsed; raises RuntimeError when called on the current thread
Join(c) ==
    /\ cpc[c] = "join"
    /\ IF c = "self"
         THEN /\ raising' = [raising EXCEPT ![c] = "RuntimeError"]
              /\ cpc' = [cpc EXCEPT ![c] = "fin_rel"]
         ELSE /\ pc[target[c]] = "dead" \/ waitLeft[c] = 0
              /\ cpc' = [cpc EXCEPT ![c] = "j_check"]
              /\ UNCHANGED raising
    /\ waitLeft' = [waitLeft EXCEPT ![c] = 0]
    /\ UNCHANGED <<target, timeout, started, elapsed, calls>>
    /\ UNCHANGED <<thrVars, grpVars, mainVars, histVars>>

\* inner finally: "self.shield.release()" -> Mutex.release: super().release()
FinallyRelease(c) ==
    /\ cpc[c] = "fin_rel"
    /\ shieldValue' = [shieldValue EXCEPT ![target[c]] = @ + 1]
    /\ cpc' = [cpc EXCEPT ![c] = "fin_clr"]
    /\ UNCHANGED <<target, timeout, started, elapsed, waitLeft, raising, calls>>
    /\ UNCHANGED <<pc, exc, stopping, done, shieldHeld, internalLock, stopLock,
                   asyncExc, exception, grouped>>
    /\ UNCHANGED <<grpVars, mainVars, histVars>>

\* Mutex.release: "self._held = False"
FinallyClearHeld(c) ==
    /\ cpc[c] = "fin_clr"
    /\ shieldHeld' = [shieldHeld EXCEPT ![target[c]] = FALSE]
    /\ cpc' = [cpc EXCEPT ![c] = "fin_lock"]
    /\ UNCHANGED <<target, timeout, started, elapsed, waitLeft, raising, calls>>
    /\ UNCHANGED <<pc, exc, stopping, done, shieldValue, internalLock, stopLock,
                   asyncExc, exception, grouped>>
    /\ UNCHANGED <<grpVars, mainVars, histVars>>

\* outer finally: "self._stop_lock.release()"; stop() returns or raises
FinallyUnlock(c) ==
    /\ cpc[c] = "fin_lock"
    /\ stopLock' = [stopLock EXCEPT ![target[c]] = FALSE]
    /\ cpc' = [cpc EXCEPT ![c] = CASE raising[c] = "none" -> "ret"
                                   [] raising[c] = "Timeout" -> "timeout"
                                   [] OTHER -> "error"]
    /\ started' = [started EXCEPT ![c] = FALSE]
    /\ elapsed' = [elapsed EXCEPT ![c] = 0]
    /\ UNCHANGED <<target, timeout, waitLeft, raising, calls>>
    /\ UNCHANGED <<pc, exc, stopping, done, shieldValue, shieldHeld, internalLock,
                   asyncExc, exception, grouped>>
    /\ UNCHANGED <<grpVars, mainVars, histVars>>

\* the monotonic clock advances by one tick
Tick ==
    /\ \E c \in Callers : (started[c] /\ elapsed[c] < timeout[c]) \/ waitLeft[c] > 0
    /\ elapsed' = [c \in Callers |->
                     IF started[c] /\ elapsed[c] < timeout[c]
                       THEN elapsed[c] + 1 ELSE elapsed[c]]
    /\ waitLeft' = [c \in Callers |->
                     IF waitLeft[c] > 0 THEN waitLeft[c] - 1 ELSE waitLeft[c]]
    /\ UNCHANGED <<cpc, target, timeout, started, raising, calls>>
    /\ UNCHANGED <<thrVars, grpVars, mainVars, histVars>>

StopStep(c) ==
    \/ GateDone(c) \/ GateStopping(c) \/ GateLock(c)
    \/ ShieldCheck(c) \/ ShieldNext(c) \/ ShieldAcquire(c) \/ ShieldSetHeld(c)
    \/ SetStopping(c) \/ JoinCheck(c) \/ Throw(c) \/ Join(c)
    \/ FinallyRelease(c) \/ FinallyClearHeld(c) \/ FinallyUnlock(c)

\* --------------------------------------------------- callers of Thread.stop
\* the timeouts the callers pass; 0 is the default of stop()
Budgets(c) == 0..MaxTimeout

\* history: the stop request repeats one that is already being served (by a
\* stop() that cannot time out), or the thread is stopping or done already
Repeats(c, t) ==
    \/ done[t]
    \/ stopping[t]
    \/ \E d \in Callers \ {c} :
          /\ target[d] = t /\ passed[d] /\ timeout[d] = 0
          /\ cpc[d] \notin {"idle", "ret", "timeout", "error"}

\* history: stop is requested for the first time on a worker that is inside a
\* Shield (between Mutex.acquire and Mutex.release)
FreshOnShielded(t) ==
    /\ pc[t] \in {"shrun", "shsleep"}
    /\ ~stopping[t]
    /\ \A d \in Callers : cpc[d] \in {"idle", "ret", "timeout", "error"}

\* another thread holding the Thread handle calls stop(T)
ExternStop(c) ==
    /\ c \in Extern
    /\ cpc[c] \in {"idle", "ret", "timeout"}
    /\ calls < MaxStopCalls
    /\ \E t \in Threads, T \in Budgets(c) :
          /\ pc[t] # "unborn"
          /\ BeginStop(c, t, T)
          /\ hist' = [hist EXCEPT !.shielded = [@ EXCEPT ![c] = FreshOnShielded(t)],
                                   !.repeat = [@ EXCEPT ![c] = Repeats(c, t)]]
    /\ calls' = calls + 1
    /\ UNCHANGED <<thrVars, grpVars, mainVars>>

\* the worker calls stop() on its own thread
SelfStop(t) ==
    /\ t \in FirstWorker
    /\ pc[t] \in {"run", "shrun"}
    /\ ~hist.selfCalled
    /\ cpc["self"] = "idle"
    /\ BeginStop("self", t, 0)
    /\ pc' = [pc EXCEPT ![t] = IF pc[t] = "run" THEN "selfstop" ELSE "shselfstop"]
    /\ hist' = [hist EXCEPT !.selfCalled = TRUE]
    /\ UNCHANGED <<exc, stopping, done, shieldValue, shieldHeld, internalLock,
                   stopLock, asyncExc, exception, grouped>>
    /\ UNCHANGED <<calls, grpVars, mainVars>>

\* stop() returned to, or raised in, the worker that called it on itself
SelfStopEnds(t) ==
    /\ pc[t] \in {"selfstop", "shselfstop"}
    /\ cpc["self"] \in {"ret", "error"}
    /\ cpc' = [cpc EXCEPT !["self"] = "idle"]
    /\ IF cpc["self"] = "ret"
         THEN /\ pc' = [pc EXCEPT ![t] = IF pc[t] = "selfstop" THEN "run" ELSE "shrun"]
              /\ UNCHANGED <<exc, shieldValue>>
         ELSE /\ exc' = [exc EXCEPT ![t] = raising["self"]]
              /\ IF pc[t] = "shselfstop"
                   THEN /\ shieldValue' = [shieldValue EXCEPT ![t] = @ + 1]
                        /\ pc' = [pc EXCEPT ![t] = "sh_clr"]
                   ELSE /\ pc' = [pc EXCEPT ![t] = "fin"]
                        /\ UNCHANGED shieldValue
    /\ UNCHANGED <<stopping, done, shieldHeld, internalLock, stopLock, asyncExc,
                   exception, grouped>>
    /\ UNCHANGED <<target, timeout, started, elapsed, waitLeft, raising, calls>>
    /\ UNCHANGED <<grpVars, mainVars, histVars>>

\* ------------------------------------------------------------- ThreadGroup
\* run() -> _create_thread: the thread is started, appended to both lists and
\* released by ready.set(); _runner does nothing before that
GroupRun ==
    /\ mpc = "body"
    /\ Len(threads) < NumWorkers
    /\ LET t == Len(threads) + 1 IN
          /\ pc' = [pc EXCEPT ![t] = "run"]
          /\ grouped' = [grouped EXCEPT ![t] = TRUE]
          /\ threads' = Append(threads, t)
          /\ runningThreads' = Append(runningThreads, t)
    /\ UNCHANGED <<exc, stopping, done, shieldValue, shieldHeld, internalLock,
                   stopLock, asyncExc, exception>>
    /\ UNCHANGED <<callVars, threadEvent, groupStopping, mainVars, histVars>>

\* stop(): "self._stopping.set(); self._thread_event.set()", called by the body
GroupStop ==
    /\ mpc = "body"
    /\ ~groupStopping
    /\ groupStopping' = TRUE
    /\ threadEvent' = TRUE
    /\ hist' = [hist EXCEPT !.userStop = TRUE]
    /\ UNCHANGED <<thrVars, callVars, threads, runningThreads, mainVars,
                   passed, acquired>>

\* __exit__ -> wait()
EnterWait ==
    /\ mpc = "body"
    /\ mpc' = "any"
    /\ anyIdx' = 0
    /\ UNCHANGED <<thrVars, callVars, grpVars, stopIdx, histVars>>

\* wait(): one step of "any(thread.running for thread in self._running_threads)";
\* the list iterator keeps an index into the list the workers remove from
WaitAny ==
    /\ mpc = "any"
    /\ IF anyIdx < Len(runningThreads)
         THEN IF running(runningThreads[anyIdx + 1])
                THEN mpc' = "evwait" /\ UNCHANGED <<anyIdx, stopIdx>>
                ELSE anyIdx' = anyIdx + 1 /\ UNCHANGED <<mpc, stopIdx>>
         ELSE mpc' = "st_next" /\ stopIdx' = 0 /\ anyIdx' = 0
    /\ UNCHANGED <<thrVars, callVars, grpVars, histVars>>

\* wait(): "self._thread_event.wait()"
EventWait ==
    /\ mpc = "evwait"
    /\ threadEvent
    /\ mpc' = "evclear"
    /\ UNCHANGED <<thrVars, callVars, grpVars, anyIdx, stopIdx, histVars>>

\* wait(): "self._thread_event.clear()"
EventClear ==
    /\ mpc = "evclear"
    /\ threadEvent' = FALSE
    /\ mpc' = "gcheck"
    /\ UNCHANGED <<thrVars, callVars, threads, runningThreads, groupStopping,
                   anyIdx, stopIdx, histVars>>

\* wait(): "if self._stopping.is_set(): break"
StoppingCheck ==
    /\ mpc = "gcheck"
    /\ IF groupStopping
         THEN mpc' = "st_next" /\ stopIdx' = 0 /\ anyIdx' = 0
         ELSE mpc' = "any" /\ anyIdx' = 0 /\ UNCHANGED stopIdx
    /\ UNCHANGED <<thrVars, callVars, grpVars, histVars>>

\* _stop_threads: "for thread in self._threads: thread.stop()"
StopNext ==
    /\ mpc = "st_next"
    /\ IF stopIdx < Len(threads)
         THEN /\ BeginStop("main", threads[stopIdx + 1], 0)
              /\ mpc' = "st_stop"
         ELSE /\ mpc' = "finish"
              /\ UNCHANGED <<cpc, target, timeout, started, elapsed, waitLeft,
                             raising, passed, acquired>>
    /\ UNCHANGED <<thrVars, grpVars, calls, anyIdx, stopIdx, hist>>

\* _stop_threads: thread.stop() returned
StopReturned ==
    /\ mpc = "st_stop"
    /\ cpc["main"] = "ret"
    /\ cpc' = [cpc EXCEPT !["main"] = "idle"]
    /\ mpc' = "st_join"
    /\ UNCHANGED <<target, timeout, started, elapsed, waitLeft, raising, calls>>
    /\ UNCHANGED <<thrVars, grpVars, anyIdx, stopIdx, histVars>>

\* faulty variant: Thread.wait() returns without joining
JoinedNoWait(t) == TRUE

\* Thread.wait() -> join(): returns once the thread has ended
Joined(t) == pc[t] = "dead"

\* _stop_threads: "thread.wait()"
ThreadWait ==
    /\ mpc = "st_join"
    /\ Joined(threads[stopIdx + 1])
    /\ stopIdx' = stopIdx + 1
    /\ mpc' = "st_next"
    /\ UNCHANGED <<thrVars, callVars, grpVars, anyIdx, histVars>>

\* wait(): "[thread.exception for thread in self._threads if thread.exception]"
Exceptions == {i \in 1..Len(threads) : exception[threads[i]]}

\* wait(): raise ExceptionGroup(...) if there are exceptions, else return
WaitEnds ==
    /\ mpc = "finish"
    /\ mpc' = IF Exceptions # {} THEN "raised" ELSE "returned"
    /\ UNCHANGED <<thrVars, callVars, grpVars, anyIdx, stopIdx, histVars>>

\* --------------------------------------------------------- specifications
NoHist == [sleepers |-> {}, ranAfter |-> FALSE,
           shielded |-> [c \in Callers |-> FALSE],
           repeat |-> [c \in Callers |-> FALSE],
           userStop |-> FALSE, selfCalled |-> FALSE]

\* Channel.__init__: "self._queue = Queue()"
InitChannel ==
    /\ queue = <<>>
    /\ shut = FALSE
    /\ chanNone = FALSE
    /\ upc = [u \in Users |-> "idle"]
    /\ uop = [u \in Users |-> "none"]
    /\ uval = [u \in Users |-> 0]
    /\ ures = [u \in Users |-> "none"]
    /\ nput = 0
    /\ nops = 0
    /\ putLog = <<>>
    /\ gotLog = <<>>
    /\ cbLog = <<>>
    /\ uAfter = [u \in Users |-> FALSE]
    /\ uBlocked = [u \in Users |-> FALSE]
    /\ gfpc = "group"
    /\ result = 0

\* DispatchQueue.__init__: "self._queue = Queue()"
InitDispatch ==
    /\ dq = <<>>
    /\ cur = 0
    /\ derr = "none"
    /\ fut = [k \in Thunks |-> "none"]
    /\ spc = [u \in Dispatchers |-> "idle"]
    /\ sid = [u \in Dispatchers |-> 0]
    /\ nsub = 0
    /\ owner = [k \in Thunks |-> "none"]
    /\ subLog = <<>>
    /\ ran = <<>>
    /\ nset = [k \in Thunks |-> 0]

\* state of the utilities; no thunk has called its own queue
InitMore ==
    /\ nested = [k \in Thunks |-> "none"]
    /\ instFn = [i \in Instances |-> 0]
    /\ gate = [i \in Instances |-> [u \in Users |-> FALSE]]
    /\ apc = [u \in Users |-> "idle"]
    /\ ainst = [u \in Users |-> "t1"]
    /\ awrap = [u \in Users |-> 0]
    /\ ares = [u \in Users |-> "none"]
    /\ acalls = 0
    /\ sbudget = 0
    /\ selapsed = 0
    /\ sdur = 0
    /\ sres = "none"

\* Lock.__init__
InitLock ==
    /\ locked = FALSE
    /\ acquiredLocks = [t \in Threads |-> FALSE]
    /\ lockMode = [t \in Threads |-> "none"]

InitThreads ==
    /\ exc = [t \in Threads |-> "none"]
    /\ stopping = [t \in Threads |-> FALSE]
    /\ done = [t \in Threads |-> FALSE]
    /\ shieldValue = [t \in Threads |-> 1]
    /\ shieldHeld = [t \in Threads |-> FALSE]
    /\ internalLock = [t \in Threads |-> FALSE]
    /\ stopLock = [t \in Threads |-> FALSE]
    /\ asyncExc = [t \in Threads |-> FALSE]
    /\ exception = [t \in Threads |-> FALSE]
    /\ grouped = [t \in Threads |-> FALSE]
    /\ cpc = [c \in Callers |-> "idle"]
    /\ target = [c \in Callers |-> 1]
    /\ timeout = [c \in Callers |-> 0]
    /\ started = [c \in Callers |-> FALSE]
    /\ elapsed = [c \in Callers |-> 0]
    /\ waitLeft = [c \in Callers |-> 0]
    /\ raising = [c \in Callers |-> "none"]
    /\ calls = 0
    /\ threads = <<>>
    /\ runningThreads = <<>>
    /\ threadEvent = FALSE
    /\ groupStopping = FALSE
    /\ anyIdx = 0
    /\ stopIdx = 0
    /\ passed = [c \in Callers |-> FALSE]
    /\ acquired = [c \in Callers |-> FALSE]
    /\ hist = NoHist
    /\ InitLock
    /\ InitChannel
    /\ InitDispatch
    /\ InitMore

\* a ThreadGroup scope is entered; no thread exists yet
Init ==
    /\ InitThreads
    /\ pc = [t \in Threads |-> "unborn"]
    /\ mpc = "body"

\* a worker: its user function sleeps, uses Shield, raises or returns
Worker(t) ==
    \/ ShieldEnter(t) \/ MutexSetHeld(t) \/ ShieldExit(t) \/ MutexClearHeld(t)
    \/ UserSleep(t) \/ SleepTimeout(t) \/ Interrupted(t) \/ UserRaise(t)
    \/ UserReturn(t) \/ Finally(t) \/ SetDone(t) \/ StopCallback(t)

Scope ==
    \/ GroupRun \/ GroupStop \/ EnterWait
    \/ WaitAny \/ EventWait \/ EventClear \/ StoppingCheck
    \/ StopNext \/ StopReturned \/ ThreadWait \/ WaitEnds

Next ==
    /\ \/ \E t \in Threads : Worker(t)
       \/ \E t \in FirstWorker : SelfStop(t) \/ SelfStopEnds(t)
       \/ Scope
       \/ \E c \in {"main", "self"} : StopStep(c)
    /\ UNCHANGED extVars

Spec == Init /\ [][Next]_vars

\* one thread started by Thread.spawn without a group; two other threads hold
\* its handle
InitStop ==
    /\ InitThreads
    /\ pc = [t \in Threads |-> IF t \in FirstWorker THEN "run" ELSE "unborn"]
    /\ mpc = "off"

NextStop ==
    /\ \/ \E t \in FirstWorker : Worker(t)
       \/ \E c \in Extern : ExternStop(c) \/ StopStep(c)
       \/ Tick
    /\ UNCHANGED extVars

SpecStop == InitStop /\ [][NextStop]_vars

\* -------------------------------------------------------------------- Lock
\* Lock.acquire: "isinstance(threading.current_thread(), StoppableThread)"
IsStoppableThread(t) == TRUE

\* the worker is inside Lock.acquire .. Lock.release
InLock(t) == pc[t] \in {"lk_add", "lkrun", "lksleep", "lk_unw", "lk_rem"}

\* Lock.acquire: "self._lock.acquire()", from a with statement (__enter__) or
\* from a plain call
LockAcquire(t) ==
    /\ pc[t] = "run"
    /\ ~locked
    /\ locked' = TRUE
    /\ \E m \in {"with", "call"} : lockMode' = [lockMode EXCEPT ![t] = m]
    /\ pc' = [pc EXCEPT ![t] = "lk_add"]
    /\ UNCHANGED <<exc, stopping, done, shieldValue, shieldHeld, internalLock,
                   stopLock, asyncExc, exception, grouped>>
    /\ UNCHANGED <<callVars, grpVars, mainVars, histVars, acquiredLocks>>

\* Lock.acquire: "threading.current_thread().acquired_locks.add(self)"
LockRecord(t) ==
    /\ pc[t] = "lk_add"
    /\ acquiredLocks' = [acquiredLocks EXCEPT ![t] = @ \/ IsStoppableThread(t)]
    /\ pc' = [pc EXCEPT ![t] = "lkrun"]
    /\ UNCHANGED <<exc, stopping, done, shieldValue, shieldHeld, internalLock,
                   stopLock, asyncExc, exception, grouped>>
    /\ UNCHANGED <<callVars, grpVars, mainVars, histVars, locked, lockMode>>

\* the worker calls sleep(seconds) while it holds the Lock
LockedSleep(t) ==
    /\ pc[t] = "lkrun"
    /\ pc' = [pc EXCEPT ![t] = "lksleep"]
    /\ UNCHANGED <<exc, stopping, done, shieldValue, shieldHeld, internalLock,
                   stopLock, asyncExc, exception, grouped>>
    /\ UNCHANGED <<callVars, grpVars, mainVars, histVars, lockVars>>

\* _sleep_on_thread: the sleep runs out and returns
LockedSleepTimeout(t) ==
    /\ pc[t] = "lksleep"
    /\ pc' = [pc EXCEPT ![t] = "lkrun"]
    /\ UNCHANGED <<exc, stopping, done, shieldValue, shieldHeld, internalLock,
                   stopLock, asyncExc, exception, grouped>>
    /\ UNCHANGED <<callVars, grpVars, mainVars, histVars, lockVars>>

\* ExitThread is raised in the worker while it is between Lock.acquire and
\* Lock.release: by _sleep_on_thread that sees thread.stopping, or by a pending
\* asynchronous exception. Only the body of a with statement unwinds through
\* Lock.__exit__; everywhere else the exception leaves the user function.
LockedInterrupted(t) ==
    /\ \/ pc[t] = "lksleep" /\ stopping[t]
       \/ pc[t] \in {"lk_add", "lkrun", "lksleep", "lk_rem"} /\ asyncExc[t]
    /\ exc[t] = "none"
    /\ exc' = [exc EXCEPT ![t] = "ExitThread"]
    /\ asyncExc' = [asyncExc EXCEPT ![t] = FALSE]
    /\ pc' = [pc EXCEPT ![t] =
                 IF lockMode[t] = "with" /\ pc[t] \in {"lkrun", "lksleep"}
                   THEN "lk_unw" ELSE "fin"]
    /\ UNCHANGED <<stopping, done, shieldValue, shieldHeld, internalLock,
                   stopLock, exception, grouped>>
    /\ UNCHANGED <<callVars, grpVars, mainVars, histVars, lockVars>>

\* Lock.release: "self._lock.release()", called by the user function or by
\* Lock.__exit__ while an exception unwinds the with statement
LockRelease(t) ==
    /\ pc[t] \in {"lkrun", "lk_unw"}
    /\ locked
    /\ locked' = FALSE
    /\ pc' = [pc EXCEPT ![t] = "lk_rem"]
    /\ UNCHANGED <<exc, stopping, done, shieldValue, shieldHeld, internalLock,
                   stopLock, asyncExc, exception, grouped>>
    /\ UNCHANGED <<callVars, grpVars, mainVars, histVars, acquiredLocks, lockMode>>

\* Lock.release: "threading.current_thread().acquired_locks.remove(self)"
LockForget(t) ==
    /\ pc[t] = "lk_rem"
    /\ acquiredLocks' = [acquiredLocks EXCEPT ![t] = FALSE]
    /\ lockMode' = [lockMode EXCEPT ![t] = "none"]
    /\ pc' = [pc EXCEPT ![t] = IF exc[t] = "none" THEN "run" ELSE "fin"]
    /\ UNCHANGED <<exc, stopping, done, shieldValue, shieldHeld, internalLock,
                   stopLock, asyncExc, exception, grouped>>
    /\ UNCHANGED <<callVars, grpVars, mainVars, histVars, locked>>

\* a worker that uses the Lock
Locking(t) ==
    \/ LockAcquire(t) \/ LockRecord(t) \/ LockedSleep(t) \/ LockedSleepTimeout(t)
    \/ LockedInterrupted(t) \/ LockRelease(t) \/ LockForget(t)

\* another thread calls t.stop() ...
StopLocker(c) ==
    /\ cpc[c] = "idle"
    /\ \E t \in FirstWorker : BeginStop(c, t, 0)
    /\ UNCHANGED <<thrVars, grpVars, mainVars, hist, calls, extVars>>

\* ... and then t.wait()
WaitLocker(c) ==
    /\ cpc[c] = "ret"
    /\ Joined(target[c])
    /\ cpc' = [cpc EXCEPT ![c] = "waited"]
    /\ UNCHANGED <<target, timeout, started, elapsed, waitLeft, raising, calls>>
    /\ UNCHANGED <<thrVars, grpVars, mainVars, histVars, extVars>>

\* one thread started by Thread.spawn whose function uses a Lock; another
\* thread stops it and waits for it
NextLock ==
    \/ \E t \in FirstWorker : Worker(t) /\ UNCHANGED extVars
    \/ \E t \in FirstWorker : Locking(t) /\ UNCHANGED <<chanVars, firstVars, dqVars, moreVars>>
    \/ StopLocker("s1")
    \/ StopStep("s1") /\ UNCHANGED extVars
    \/ WaitLocker("s1")

SpecLock == InitStop /\ [][NextLock]_vars

\* ----------------------------------------------------------------- Channel
\* faulty variant: the closed test never fires
NeverClosed == FALSE

\* put/get: "if self._queue is None"
IsClosed == chanNone

\* faulty variant: the queue hands out the newest item first
EnqueueInFront(q, v) == <<v>> \o q

\* Queue.put: the item is appended
Enqueue(q, v) == Append(q, v)

\* a Channel method returns or raises
ChanEnds(u, r) ==
    /\ upc' = [upc EXCEPT ![u] = "idle"]
    /\ ures' = [ures EXCEPT ![u] = r]

\* faulty variant: Queue.get hands out the newest item
Newest(q) == q[Len(q)]

\* Queue.get / Queue._get: "return self.queue.popleft()"
Oldest(q) == Head(q)

\* Queue.get: the oldest item is removed and returned
ChanTake(u) ==
    /\ gotLog' = Append(gotLog, Oldest(queue))
    /\ queue' = Tail(queue)
    /\ ChanEnds(u, "ok")

\* a thread calls put(value), get(), close() (also through __exit__) or
\* next() on the Channel
ChanCall(u) ==
    /\ upc[u] = "idle"
    /\ nops < MaxOps
    /\ nops' = nops + 1
    /\ \E op \in {"put", "get", "close", "next"} :
          /\ op = "put" => nput < MaxPuts
          /\ uop' = [uop EXCEPT ![u] = op]
          /\ nput' = IF op = "put" THEN nput + 1 ELSE nput
          /\ uval' = [uval EXCEPT ![u] = IF op = "put" THEN nput + 1 ELSE 0]
          /\ upc' = [upc EXCEPT ![u] = CASE op \in {"put", "get"} -> "chk"
                                         [] op = "close" -> "shutdown"
                                         [] op = "next" -> "empty"]
    /\ ures' = [ures EXCEPT ![u] = "none"]
    /\ uAfter' = [uAfter EXCEPT ![u] = chanNone]
    /\ uBlocked' = [uBlocked EXCEPT ![u] = FALSE]
    /\ UNCHANGED <<queue, shut, chanNone, putLog, gotLog, cbLog>>

\* put/get: "if self._queue is None: raise ValueError('Channel is closed')"
ChanCheck(u) ==
    /\ upc[u] = "chk"
    /\ IF IsClosed
         THEN ChanEnds(u, "ValueError")
         ELSE /\ upc' = [upc EXCEPT ![u] = IF uop[u] = "put" THEN "q_put" ELSE "q_get"]
              /\ UNCHANGED ures
    /\ UNCHANGED <<queue, shut, chanNone, uop, uval, nput, nops,
                   putLog, gotLog, cbLog, uAfter, uBlocked>>

\* put: "self._queue.put(value)"; None has no put, a queue that is shut down
\* raises ShutDown
ChanQueuePut(u) ==
    /\ upc[u] = "q_put"
    /\ IF chanNone \/ shut
         THEN /\ ChanEnds(u, IF chanNone THEN "AttributeError" ELSE "ShutDown")
              /\ UNCHANGED <<queue, putLog>>
         ELSE /\ queue' = Enqueue(queue, uval[u])
              /\ putLog' = Append(putLog, uval[u])
              /\ upc' = [upc EXCEPT ![u] = "cb"]
              /\ UNCHANGED ures
    /\ UNCHANGED <<shut, chanNone, uop, uval, nput, nops, gotLog, cbLog,
                   uAfter, uBlocked>>

\* put: "if self._on_put_callback: self._on_put_callback(value)"
ChanOnPut(u) ==
    /\ upc[u] = "cb"
    /\ cbLog' = Append(cbLog, uval[u])
    /\ ChanEnds(u, "ok")
    /\ UNCHANGED <<queue, shut, chanNone, uop, uval, nput, nops, putLog, gotLog,
                   uAfter, uBlocked>>

\* get: "return self._queue.get()": Queue.get raises ShutDown on a queue that
\* is shut down and empty, returns the oldest item, or starts to wait
ChanQueueGet(u) ==
    /\ upc[u] = "q_get"
    /\ IF chanNone \/ shut
         THEN ChanEnds(u, IF chanNone THEN "AttributeError" ELSE "ShutDown")
              /\ UNCHANGED <<queue, gotLog>>
         ELSE IF queue # <<>>
                THEN ChanTake(u)
                ELSE /\ upc' = [upc EXCEPT ![u] = "wait"]
                     /\ UNCHANGED <<queue, gotLog, ures>>
    /\ UNCHANGED <<shut, chanNone, uop, uval, nput, nops, putLog, cbLog,
                   uAfter, uBlocked>>

\* Queue.get: the waiting getter is notified; "if self.is_shutdown: raise ShutDown"
ChanGetWakes(u) ==
    /\ upc[u] = "wait"
    /\ shut \/ queue # <<>>
    /\ IF shut
         THEN ChanEnds(u, "ShutDown") /\ UNCHANGED <<queue, gotLog>>
         ELSE ChanTake(u)
    /\ UNCHANGED <<shut, chanNone, uop, uval, nput, nops, putLog, cbLog,
                   uAfter, uBlocked>>

\* close: "self._queue.shutdown(True)": the queue is drained, getters are woken
ChanShutdown(u) ==
    /\ upc[u] = "shutdown"
    /\ IF chanNone
         THEN /\ ChanEnds(u, "AttributeError")
              /\ UNCHANGED <<queue, shut, uBlocked>>
         ELSE /\ shut' = TRUE
              /\ queue' = <<>>
              /\ uBlocked' = [v \in Users |-> uBlocked[v] \/ upc[v] = "wait"]
              /\ upc' = [upc EXCEPT ![u] = "setnone"]
              /\ UNCHANGED ures
    /\ UNCHANGED <<chanNone, uop, uval, nput, nops, putLog, gotLog, cbLog, uAfter>>

\* close: "self._queue = None"
ChanSetNone(u) ==
    /\ upc[u] = "setnone"
    /\ chanNone' = TRUE
    /\ ChanEnds(u, "ok")
    /\ UNCHANGED <<queue, shut, uop, uval, nput, nops, putLog, gotLog, cbLog,
                   uAfter, uBlocked>>

\* __next__: "if self.is_empty: raise StopIteration", then "return self.get()"
ChanIsEmpty(u) ==
    /\ upc[u] = "empty"
    /\ IF chanNone \/ queue = <<>>
         THEN ChanEnds(u, IF chanNone THEN "AttributeError" ELSE "StopIteration")
         ELSE /\ upc' = [upc EXCEPT ![u] = "chk"]
              /\ UNCHANGED ures
    /\ UNCHANGED <<queue, shut, chanNone, uop, uval, nput, nops,
                   putLog, gotLog, cbLog, uAfter, uBlocked>>

ChanStep(u) ==
    \/ ChanCall(u) \/ ChanCheck(u) \/ ChanQueuePut(u) \/ ChanOnPut(u)
    \/ ChanQueueGet(u) \/ ChanGetWakes(u) \/ ChanShutdown(u) \/ ChanSetNone(u)
    \/ ChanIsEmpty(u)

\* threads that share one Channel
InitChan ==
    /\ InitThreads
    /\ pc = [t \in Threads |-> "unborn"]
    /\ mpc = "off"

NextChan ==
    \E u \in Users : ChanStep(u) /\ UNCHANGED <<baseVars, lockVars, firstVars, dqVars, moreVars>>

SpecChan == InitChan /\ [][NextChan]_vars

\* ------------------------------------------------------- Channel.get_first
\* a fn running in the group: it sleeps, takes a Lock, raises or returns
FnWorker(t) ==
    \/ UserSleep(t) \/ SleepTimeout(t) \/ Interrupted(t) \/ UserRaise(t)
    \/ UserReturn(t) \/ Finally(t) \/ SetDone(t) \/ StopCallback(t)

\* a fn calls channel.put(value): "if self._queue is None", "self._queue.put(value)";
\* each fn puts its own value, once
FnPut(t) ==
    /\ pc[t] = "run"
    /\ \A i \in 1..Len(putLog) : putLog[i] # t
    /\ IF IsClosed
         THEN /\ pc' = [pc EXCEPT ![t] = "fin"]
              /\ exc' = [exc EXCEPT ![t] = "Error"]
              /\ UNCHANGED <<queue, putLog>>
         ELSE /\ queue' = Enqueue(queue, t)
              /\ putLog' = Append(putLog, t)
              /\ pc' = [pc EXCEPT ![t] = "put_cb"]
              /\ UNCHANGED exc
    /\ UNCHANGED <<stopping, done, shieldValue, shieldHeld, internalLock,
                   stopLock, asyncExc, exception, grouped>>
    /\ UNCHANGED <<callVars, grpVars, mainVars, histVars, lockVars, firstVars, dqVars, moreVars>>
    /\ UNCHANGED <<shut, chanNone, upc, uop, uval, ures, nput, nops, gotLog,
                   cbLog, uAfter, uBlocked>>

\* put: "self._on_put_callback(value)" -> on_put_callback: "group.stop()" ->
\* "self._stopping.set(); self._thread_event.set()", on the fn's thread
FnOnPut(t) ==
    /\ pc[t] = "put_cb"
    /\ groupStopping' = TRUE
    /\ threadEvent' = TRUE
    /\ pc' = [pc EXCEPT ![t] = "run"]
    /\ UNCHANGED <<exc, stopping, done, shieldValue, shieldHeld, internalLock,
                   stopLock, asyncExc, exception, grouped>>
    /\ UNCHANGED <<callVars, threads, runningThreads, mainVars, histVars,
                   lockVars, firstVars, dqVars, moreVars>>
    /\ UNCHANGED chanVars

\* "result = channel.get()" after the ThreadGroup's with statement has ended:
\* the oldest value, or the caller waits in Queue.get (no fn is left to put)
FirstGet ==
    /\ gfpc = "group"
    /\ mpc = "returned"
    /\ IF IsClosed
         THEN gfpc' = "exit" /\ UNCHANGED <<result, queue, gotLog>>
         ELSE IF queue # <<>>
                THEN /\ result' = Oldest(queue)
                     /\ gotLog' = Append(gotLog, Oldest(queue))
                     /\ queue' = Tail(queue)
                     /\ gfpc' = "exit"
                ELSE /\ gfpc' = "wait"
                     /\ UNCHANGED <<result, queue, gotLog>>
    /\ UNCHANGED <<baseVars, lockVars, dqVars, moreVars>>
    /\ UNCHANGED <<shut, chanNone, upc, uop, uval, ures, nput, nops, putLog,
                   cbLog, uAfter, uBlocked>>

\* ThreadGroup.__exit__ raised the ExceptionGroup: it leaves the Channel's
\* with statement
FirstRaise ==
    /\ gfpc = "group"
    /\ mpc = "raised"
    /\ gfpc' = "exit"
    /\ UNCHANGED <<baseVars, lockVars, chanVars, result, dqVars, moreVars>>

\* Channel.__exit__ -> close(): "self._queue.shutdown(True); self._queue = None",
\* then "return result" or the exception propagates
FirstClose ==
    /\ gfpc = "exit"
    /\ shut' = TRUE
    /\ queue' = <<>>
    /\ chanNone' = TRUE
    /\ gfpc' = IF mpc = "raised" THEN "raised" ELSE "returned"
    /\ UNCHANGED <<baseVars, lockVars, result, dqVars, moreVars>>
    /\ UNCHANGED <<upc, uop, uval, ures, nput, nops, putLog, gotLog, cbLog,
                   uAfter, uBlocked>>

\* get_first(*fns): the group's with statement runs the fns and waits for them
NextFirst ==
    \/ \E t \in Threads : FnWorker(t) /\ UNCHANGED extVars
    \/ \E t \in Threads : FnPut(t) \/ FnOnPut(t)
    \/ \E t \in FirstWorker : Locking(t) /\ UNCHANGED <<chanVars, firstVars, dqVars, moreVars>>
    \/ (GroupRun \/ EnterWait \/ WaitAny \/ EventWait \/ EventClear
          \/ StoppingCheck \/ StopNext \/ StopReturned \/ ThreadWait \/ WaitEnds)
       /\ UNCHANGED extVars
    \/ StopStep("main") /\ UNCHANGED extVars
    \/ FirstGet \/ FirstRaise \/ FirstClose

SpecFirst == Init /\ [][NextFirst]_vars

\* ----------------------------------------------------------- DispatchQueue
thrRest == <<exc, stopping, done, shieldValue, shieldHeld, internalLock,
             stopLock, asyncExc, exception, grouped>>
dqOther == <<callVars, grpVars, mainVars, histVars, lockVars, chanVars, firstVars,
             moreVars>>

\* faulty variant: every exception ends the dispatch loop
AnyExceptionShutsDown(e, stp) == TRUE

\* _dispatch: "shutdown_exceptions = ExitThread", "|= SystemError" if stopping
IsShutdownException(e, stp) == e = "ExitThread" \/ (stp /\ e = "SystemError")

\* faulty variant: the worker takes the pair enqueued last
LastThunk(q) == q[Len(q)]

\* _dispatch: "future, func = self._queue.get()"
NextThunk(q) == Head(q)

\* dispatch_future: the caller is not the dispatch thread, "future = Future()"
DqSubmit(u) ==
    /\ spc[u] = "idle"
    /\ nsub < MaxThunks
    /\ nsub' = nsub + 1
    /\ sid' = [sid EXCEPT ![u] = nsub + 1]
    /\ owner' = [owner EXCEPT ![nsub + 1] = u]
    /\ fut' = [fut EXCEPT ![nsub + 1] = "pending"]
    /\ spc' = [spc EXCEPT ![u] = "put"]
    /\ UNCHANGED <<dq, cur, derr, subLog, ran, nset>>
    /\ UNCHANGED <<pc, thrRest, dqOther>>

\* dispatch_future: "self._queue.put((future, partial(...)))"; dispatch() then
\* blocks in future.result(), dispatch_future() returns the future
DqPut(u) ==
    /\ spc[u] = "put"
    /\ dq' = Append(dq, sid[u])
    /\ subLog' = Append(subLog, sid[u])
    /\ \E p \in {"idle", "result"} : spc' = [spc EXCEPT ![u] = p]
    /\ UNCHANGED <<cur, derr, fut, sid, nsub, owner, ran, nset>>
    /\ UNCHANGED <<pc, thrRest, dqOther>>

\* dispatch: ".result()" returns or raises once the future is resolved
DqResult(u) ==
    /\ spc[u] = "result"
    /\ fut[sid[u]] \in {"result", "exception"}
    /\ spc' = [spc EXCEPT ![u] = "idle"]
    /\ UNCHANGED <<dq, cur, derr, fut, sid, nsub, owner, subLog, ran, nset>>
    /\ UNCHANGED <<pc, thrRest, dqOther>>

\* _dispatch: "while self._thread.running"
DqLoop(t) ==
    /\ pc[t] = "dq_loop"
    /\ pc' = [pc EXCEPT ![t] = IF running(t) THEN "dq_get" ELSE "fin"]
    /\ UNCHANGED <<dqVars, thrRest, dqOther>>

\* _dispatch: "future, func = self._queue.get()" (blocks while the queue is
\* empty), then "func()" is called
DqGet(t) ==
    /\ pc[t] = "dq_get"
    /\ dq # <<>>
    /\ cur' = NextThunk(dq)
    /\ dq' = Tail(dq)
    /\ ran' = Append(ran, NextThunk(dq))
    /\ pc' = [pc EXCEPT ![t] = "dq_call"]
    /\ UNCHANGED <<derr, fut, spc, sid, nsub, owner, subLog, nset>>
    /\ UNCHANGED <<thrRest, dqOther>>

\* the thunk calls oodle.sleep
DqSleep(t) ==
    /\ pc[t] = "dq_call"
    /\ pc' = [pc EXCEPT ![t] = "dq_sleep"]
    /\ UNCHANGED <<dqVars, thrRest, dqOther>>

\* the thunk's sleep runs out
DqSleepTimeout(t) ==
    /\ pc[t] = "dq_sleep"
    /\ pc' = [pc EXCEPT ![t] = "dq_call"]
    /\ UNCHANGED <<dqVars, thrRest, dqOther>>

\* "result = func()" raises: the thunk's own exception, or ExitThread from a
\* sleep that sees thread.stopping
DqRaise(t) ==
    /\ \/ pc[t] = "dq_call" /\ \E e \in {"Error", "SystemError"} : derr' = e
       \/ pc[t] = "dq_sleep" /\ stopping[t] /\ derr' = "ExitThread"
    /\ pc' = [pc EXCEPT ![t] = "dq_exc"]
    /\ UNCHANGED <<dq, cur, fut, spc, sid, nsub, owner, subLog, ran, nset>>
    /\ UNCHANGED <<thrRest, dqOther>>

\* _dispatch: "except Exception as e": break on a shutdown exception, else
\* "future.set_exception(e)"
DqExcept(t) ==
    /\ pc[t] = "dq_exc"
    /\ IF IsShutdownException(derr, stopping[t])
         THEN /\ pc' = [pc EXCEPT ![t] = "fin"]
              /\ UNCHANGED <<cur, fut, nset>>
         ELSE /\ fut' = [fut EXCEPT ![cur] = "exception"]
              /\ nset' = [nset EXCEPT ![cur] = @ + 1]
              /\ cur' = 0
              /\ pc' = [pc EXCEPT ![t] = "dq_loop"]
    /\ derr' = "none"
    /\ UNCHANGED <<dq, spc, sid, nsub, owner, subLog, ran>>
    /\ UNCHANGED <<thrRest, dqOther>>

\* _dispatch: func() returned, "else: future.set_result(result)"
DqReturn(t) ==
    /\ pc[t] = "dq_call"
    /\ fut' = [fut EXCEPT ![cur] = "result"]
    /\ nset' = [nset EXCEPT ![cur] = @ + 1]
    /\ cur' = 0
    /\ pc' = [pc EXCEPT ![t] = "dq_loop"]
    /\ UNCHANGED <<dq, derr, spc, sid, nsub, owner, subLog, ran>>
    /\ UNCHANGED <<thrRest, dqOther>>

\* the dispatch thread: the _dispatch loop inside InterruptibleThread.run
Dispatching(t) ==
    \/ DqLoop(t) \/ DqGet(t) \/ DqSleep(t) \/ DqSleepTimeout(t) \/ DqRaise(t)
    \/ DqExcept(t) \/ DqReturn(t)

\* DispatchQueue.stop: "self._thread.stop()"
DqStop(c) == StopLocker(c)

\* DispatchQueue.__init__: "Thread.run(self._dispatch)", "self._started.set()"
InitQueue ==
    /\ InitThreads
    /\ pc = [t \in Threads |-> IF t \in FirstWorker THEN "dq_loop" ELSE "unborn"]
    /\ mpc = "off"

NextQueue ==
    \/ \E u \in Dispatchers : DqSubmit(u) \/ DqPut(u) \/ DqResult(u)
    \/ \E t \in FirstWorker : Dispatching(t)
    \/ \E t \in FirstWorker :
          (Finally(t) \/ SetDone(t) \/ StopCallback(t)) /\ UNCHANGED extVars
    \/ DqStop("s1")
    \/ StopStep("s1") /\ UNCHANGED extVars

SpecQueue == InitQueue /\ [][NextQueue]_vars

\* ------------------------------------------ re-entry into the DispatchQueue
dqRest == <<callVars, grpVars, mainVars, histVars, lockVars, chanVars, firstVars>>

\* faulty variant: the worker is not recognised
NeverOnDispatchThread(c) == FALSE

\* faulty variant: every thread is taken for the worker
AlwaysOnDispatchThread(c) == TRUE

\* dispatch_future / safe_dispatch:
\* "getattr(oodle.thread_locals, 'thread', None) == self._thread"
OnDispatchThread(c) == c = "worker"

\* the running thunk calls q.dispatch(other) on its own queue: on the worker
\* "raise IllegalDispatchException", elsewhere the call is enqueued and
\* dispatch blocks in future.result()
DqNestedDispatch(t) ==
    /\ pc[t] = "dq_call"
    /\ nested[cur] = "none"
    /\ IF OnDispatchThread("worker")
         THEN /\ derr' = "IllegalDispatch"
              /\ nested' = [nested EXCEPT ![cur] = "illegal"]
              /\ pc' = [pc EXCEPT ![t] = "dq_exc"]
              /\ UNCHANGED <<dq, fut, nsub, owner, subLog>>
         ELSE /\ nsub < MaxThunks
              /\ nsub' = nsub + 1
              /\ owner' = [owner EXCEPT ![nsub + 1] = "worker"]
              /\ fut' = [fut EXCEPT ![nsub + 1] = "pending"]
              /\ dq' = Append(dq, nsub + 1)
              /\ subLog' = Append(subLog, nsub + 1)
              /\ nested' = [nested EXCEPT ![cur] = "queued"]
              /\ pc' = [pc EXCEPT ![t] = "dq_block"]
              /\ UNCHANGED derr
    /\ UNCHANGED <<cur, spc, sid, ran, nset, thrRest, dqRest>>
    /\ UNCHANGED <<instFn, gate, apc, ainst, awrap, ares, acalls,
                   sbudget, selapsed, sdur, sres>>

\* the running thunk calls q.safe_dispatch(other) on its own queue: on the
\* worker "return func(*args, **kwargs)", elsewhere "self.dispatch(...)"
DqNestedSafe(t) ==
    /\ pc[t] = "dq_call"
    /\ nested[cur] = "none"
    /\ IF OnDispatchThread("worker")
         THEN /\ nested' = [nested EXCEPT ![cur] = "inline"]
              /\ UNCHANGED <<pc, dq, fut, nsub, owner, subLog>>
         ELSE /\ nsub < MaxThunks
              /\ nsub' = nsub + 1
              /\ owner' = [owner EXCEPT ![nsub + 1] = "worker"]
              /\ fut' = [fut EXCEPT ![nsub + 1] = "pending"]
              /\ dq' = Append(dq, nsub + 1)
              /\ subLog' = Append(subLog, nsub + 1)
              /\ nested' = [nested EXCEPT ![cur] = "queued"]
              /\ pc' = [pc EXCEPT ![t] = "dq_block"]
    /\ UNCHANGED <<cur, derr, spc, sid, ran, nset, thrRest, dqRest>>
    /\ UNCHANGED <<instFn, gate, apc, ainst, awrap, ares, acalls,
                   sbudget, selapsed, sdur, sres>>

\* a DispatchQueue whose thunks call dispatch / safe_dispatch on it
NextNested ==
    \/ \E u \in Dispatchers : DqSubmit(u) \/ DqPut(u) \/ DqResult(u)
    \/ \E t \in FirstWorker :
          \/ DqLoop(t) \/ DqGet(t) \/ DqExcept(t) \/ DqReturn(t)
          \/ DqNestedDispatch(t) \/ DqNestedSafe(t)

SpecNested == InitQueue /\ [][NextNested]_vars

\* ------------------------------------------------------- QueuedDispatcher
\* QueuedDispatchDescriptor.__get__ / __set__: a public method, property get
\* or property set of the instance is called from thread u:
\* "instance._dispatch_queue.safe_dispatch(...)" runs the body inline on the
\* worker and goes through dispatch() on every other thread
QdCall(u) ==
    /\ spc[u] = "idle"
    /\ IF OnDispatchThread(u)
         THEN /\ spc' = [spc EXCEPT ![u] = "inline"]
              /\ UNCHANGED <<dq, cur, derr, fut, sid, nsub, owner, subLog, ran, nset>>
              /\ UNCHANGED <<pc, thrRest, dqOther>>
         ELSE DqSubmit(u)

\* one QueuedDispatcher instance: threads call its public members, bodies
\* make nested public calls
NextDispatcher ==
    \/ \E u \in Dispatchers : QdCall(u) \/ DqPut(u) \/ DqResult(u)
    \/ \E t \in FirstWorker :
          DqLoop(t) \/ DqGet(t) \/ DqReturn(t) \/ DqNestedSafe(t)

SpecDispatcher == InitQueue /\ [][NextDispatcher]_vars

\* --------------------------------------------------- abort_concurrent_calls
\* __get__: "function = self._get_instance_function(instance)"; the locked
\* function registered for the instance, or none yet
AbGet(u) ==
    /\ apc[u] = "idle"
    /\ acalls < MaxOps
    /\ acalls' = acalls + 1
    /\ \E i \in Instances :
          /\ ainst' = [ainst EXCEPT ![u] = i]
          /\ awrap' = [awrap EXCEPT ![u] = instFn[i]]
          /\ apc' = [apc EXCEPT ![u] = IF instFn[i] = 0 THEN "create" ELSE "acquire"]
    /\ ares' = [ares EXCEPT ![u] = "none"]
    /\ UNCHANGED <<instFn, gate>>

\* __get__: "if not function": _wrap_in_lock(..., threading.Lock()) and
\* _add_instance_function(instance, function)
AbCreate(u) ==
    /\ apc[u] = "create"
    /\ gate' = [gate EXCEPT ![ainst[u]][u] = FALSE]
    /\ instFn' = [instFn EXCEPT ![ainst[u]] = u]
    /\ awrap' = [awrap EXCEPT ![u] = u]
    /\ apc' = [apc EXCEPT ![u] = "acquire"]
    /\ UNCHANGED <<ainst, ares, acalls>>

\* wrapper: "if not lock.acquire(blocking=False): return"
AbAcquire(u) ==
    /\ apc[u] = "acquire"
    /\ IF gate[ainst[u]][awrap[u]]
         THEN /\ apc' = [apc EXCEPT ![u] = "idle"]
              /\ ares' = [ares EXCEPT ![u] = "aborted"]
              /\ UNCHANGED gate
         ELSE /\ gate' = [gate EXCEPT ![ainst[u]][awrap[u]] = TRUE]
              /\ apc' = [apc EXCEPT ![u] = "body"]
              /\ UNCHANGED ares
    /\ UNCHANGED <<instFn, ainst, awrap, acalls>>

\* wrapper: func(*args, **kwargs) returns or raises, "finally: lock.release()"
AbBodyEnds(u) ==
    /\ apc[u] = "body"
    /\ \E e \in {"returned", "raised"} : ares' = [ares EXCEPT ![u] = e]
    /\ gate' = [gate EXCEPT ![ainst[u]][awrap[u]] = FALSE]
    /\ apc' = [apc EXCEPT ![u] = "idle"]
    /\ UNCHANGED <<instFn, ainst, awrap, acalls>>

\* threads that call one wrapped method on two instances
NextAbort ==
    \E u \in Users :
        /\ AbGet(u) \/ AbCreate(u) \/ AbAcquire(u) \/ AbBodyEnds(u)
        /\ UNCHANGED <<baseVars, lockVars, chanVars, firstVars, dqVars, nested,
                       sbudget, selapsed, sdur, sres>>

SpecAbort == InitChan /\ [][NextAbort]_vars

\* -------------------------------------------------------------------- sleep
\* the worker calls sleep(seconds): "_sleep_on_thread(seconds, thread)",
\* "sleep_duration = generate_timeout_durations(seconds)"
SleepCall(t) ==
    /\ pc[t] = "run"
    /\ sres = "none"
    /\ \E s \in 0..MaxTimeout : sbudget' = s
    /\ selapsed' = 0
    /\ pc' = [pc EXCEPT ![t] = "sl_next"]
    /\ UNCHANGED <<sdur, sres, thrRest>>

\* _sleep_on_thread: "duration = min(0.01, next(sleep_duration))";
\* generate_timeout_durations yields 0 for ever when "not timeout", yields
\* timeout - elapsed while elapsed < timeout and then raises TimeoutError;
\* "except TimeoutError: exiting = False": sleep returns
SleepNext(t) ==
    /\ pc[t] = "sl_next"
    /\ IF sbudget # 0 /\ selapsed >= sbudget
         THEN /\ pc' = [pc EXCEPT ![t] = "run"]
              /\ sres' = "returned"
              /\ UNCHANGED sdur
         ELSE /\ sdur' = IF sbudget = 0 THEN Min(1, 0) ELSE Min(1, sbudget - selapsed)
              /\ pc' = [pc EXCEPT ![t] = "sl_test"]
              /\ UNCHANGED sres
    /\ UNCHANGED <<sbudget, selapsed, thrRest>>

\* _sleep_on_thread: "while duration > 0 and not thread.stopping and not
\* thread.wait(timeout=duration)": the wait lasts duration and returns None;
\* when the loop ends without an exception, "else: exiting = True" and
\* "raise ExitThread"
SleepTest(t) ==
    /\ pc[t] = "sl_test"
    /\ IF sdur > 0 /\ ~stopping[t]
         THEN /\ selapsed' = selapsed + sdur
              /\ pc' = [pc EXCEPT ![t] = "sl_next"]
              /\ UNCHANGED <<exc, sres>>
         ELSE /\ exc' = [exc EXCEPT ![t] = "ExitThread"]
              /\ sres' = "ExitThread"
              /\ pc' = [pc EXCEPT ![t] = "fin"]
              /\ UNCHANGED selapsed
    /\ UNCHANGED <<sbudget, sdur, stopping, done, shieldValue, shieldHeld,
                   internalLock, stopLock, asyncExc, exception, grouped>>

\* a worker that sleeps once and returns; another thread stops it
NextSleep ==
    \/ \E t \in FirstWorker :
          /\ SleepCall(t) \/ SleepNext(t) \/ SleepTest(t)
          /\ UNCHANGED <<callVars, grpVars, mainVars, histVars, lockVars, chanVars,
                         firstVars, dqVars, nested, instFn, gate, apc, ainst,
                         awrap, ares, acalls>>
    \/ \E t \in FirstWorker :
          (UserReturn(t) \/ Finally(t) \/ SetDone(t) \/ StopCallback(t))
          /\ UNCHANGED extVars
    \/ StopLocker("s1")
    \/ StopStep("s1") /\ UNCHANGED extVars

SpecSleep == InitStop /\ [][NextSleep]_vars

\* ------------------------------------------------- throw() called directly
\* another thread calls thread.throw(ExitThread()) on the worker:
\* "if self._done.is_set() or self._stopping.is_set() ..."
ThrowCall(c) ==
    /\ cpc[c] = "idle"
    /\ calls < MaxStopCalls
    /\ calls' = calls + 1
    /\ \E t \in FirstWorker :
          /\ target' = [target EXCEPT ![c] = t]
          /\ cpc' = [cpc EXCEPT ![c] = IF done[t] \/ stopping[t]
                                          THEN "idle" ELSE "t_lock"]
    /\ UNCHANGED <<timeout, started, elapsed, waitLeft, raising>>
    /\ UNCHANGED <<thrVars, grpVars, mainVars, histVars>>

\* "... or not self._internal_lock.acquire(blocking=False): return"
ThrowAcquire(c) ==
    /\ cpc[c] = "t_lock"
    /\ IF internalLock[target[c]]
         THEN /\ cpc' = [cpc EXCEPT ![c] = "idle"]
              /\ UNCHANGED internalLock
         ELSE /\ cpc' = [cpc EXCEPT ![c] = "t_inject"]
              /\ internalLock' = [internalLock EXCEPT ![target[c]] = TRUE]
    /\ UNCHANGED <<pc, exc, stopping, done, shieldValue, shieldHeld, stopLock,
                   asyncExc, exception, grouped>>
    /\ UNCHANGED <<target, timeout, started, elapsed, waitLeft, raising, calls>>
    /\ UNCHANGED <<grpVars, mainVars, histVars>>

\* PyThreadState_SetAsyncExc(self.ident, exception): the exception is pending
\* in the worker until its interpreter next looks for one
ThrowInject(c) ==
    /\ cpc[c] = "t_inject"
    /\ asyncExc' = [asyncExc EXCEPT ![target[c]] = TRUE]
    /\ cpc' = [cpc EXCEPT ![c] = "t_rel"]
    /\ UNCHANGED <<pc, exc, stopping, done, shieldValue, shieldHeld, internalLock,
                   stopLock, exception, grouped>>
    /\ UNCHANGED <<target, timeout, started, elapsed, waitLeft, raising, calls>>
    /\ UNCHANGED <<grpVars, mainVars, histVars>>

\* throw(): "finally: self._internal_lock.release()"; releasing a Lock that
\* is not locked raises RuntimeError
ThrowRelease(c) ==
    /\ cpc[c] = "t_rel"
    /\ cpc' = [cpc EXCEPT ![c] = "idle"]
    /\ IF internalLock[target[c]]
         THEN /\ internalLock' = [internalLock EXCEPT ![target[c]] = FALSE]
              /\ UNCHANGED raising
         ELSE /\ raising' = [raising EXCEPT ![c] = "RuntimeError"]
              /\ UNCHANGED internalLock
    /\ UNCHANGED <<pc, exc, stopping, done, shieldValue, shieldHeld, stopLock,
                   asyncExc, exception, grouped>>
    /\ UNCHANGED <<target, timeout, started, elapsed, waitLeft, calls>>
    /\ UNCHANGED <<grpVars, mainVars, histVars>>

\* the pending exception is raised while the worker is in run()'s inner
\* finally and has not taken _internal_lock yet: _safely_acquire_internal_lock
\* catches SystemError only, so ExitThread leaves it without the lock
DeliverBeforeAcquire(t) ==
    /\ pc[t] = "fin"
    /\ asyncExc[t]
    /\ asyncExc' = [asyncExc EXCEPT ![t] = FALSE]
    /\ exc' = [exc EXCEPT ![t] = "ExitThread"]
    /\ pc' = [pc EXCEPT ![t] = "nolock"]
    /\ UNCHANGED <<stopping, done, shieldValue, shieldHeld, internalLock,
                   stopLock, exception, grouped>>
    /\ UNCHANGED <<callVars, grpVars, mainVars, histVars>>

\* the pending exception is raised when the worker's blocking
\* "self._internal_lock.acquire()" has returned: ExitThread propagates with
\* the lock held and run()'s except clause swallows it
DeliverAfterAcquire(t) ==
    /\ pc[t] = "setdone"
    /\ asyncExc[t]
    /\ asyncExc' = [asyncExc EXCEPT ![t] = FALSE]
    /\ exc' = [exc EXCEPT ![t] = "ExitThread"]
    /\ UNCHANGED <<pc, stopping, done, shieldValue, shieldHeld, internalLock,
                   stopLock, exception, grouped>>
    /\ UNCHANGED <<callVars, grpVars, mainVars, histVars>>

\* run()'s outer finally when the worker did not take _internal_lock:
\* done.set(), the stop callback, and a release() that frees the lock another
\* thread holds or raises RuntimeError
TeardownUnlocked(t) ==
    /\ pc[t] = "nolock"
    /\ done' = [done EXCEPT ![t] = TRUE]
    /\ pc' = [pc EXCEPT ![t] = "dead"]
    /\ IF internalLock[t]
         THEN /\ internalLock' = [internalLock EXCEPT ![t] = FALSE]
              /\ UNCHANGED exc
         ELSE /\ exc' = [exc EXCEPT ![t] = "RuntimeError"]
              /\ UNCHANGED internalLock
    /\ UNCHANGED <<stopping, shieldValue, shieldHeld, stopLock, asyncExc,
                   exception, grouped>>
    /\ UNCHANGED <<callVars, grpVars, mainVars, histVars>>

\* a worker that sleeps and returns, and two threads that call throw() on it;
\* a pending exception is raised the next time the worker's interpreter looks
NextThrow ==
    /\ \/ \E c \in Extern : \/ ThrowCall(c) \/ ThrowAcquire(c)
                             \/ ThrowInject(c) \/ ThrowRelease(c)
       \/ \E t \in FirstWorker :
             \/ (UserSleep(t) \/ UserReturn(t) \/ SetDone(t)) /\ ~asyncExc[t]
             \/ SleepTimeout(t) \/ Interrupted(t)
             \/ Finally(t) \/ StopCallback(t)
             \/ DeliverBeforeAcquire(t) \/ DeliverAfterAcquire(t)
             \/ TeardownUnlocked(t)
    /\ UNCHANGED extVars

SpecThrow == InitStop /\ [][NextThrow]_vars

\* ================================================================ properties
\* a worker ended with an exception that is not a shutdown exception
Failed(t) == exc[t] \notin {"none", "ExitThread"}

\* wait() has returned or raised: control has left the ThreadGroup scope
ScopeLeft == mpc \in {"returned", "raised"}

\* ------------------------------------------------------------------- C1
\* C1: when ThreadGroup.wait() returns or raises, every thread spawned through
\* run() has its done flag set and its OS thread has ended; control never
\* leaves the scope while a spawned worker is still alive.
C1_AllDoneWhenScopeLeft ==
    ScopeLeft => \A i \in 1..Len(threads) : done[threads[i]] /\ pc[threads[i]] = "dead"

\* the scope is left after all workers were spawned, one of them cancelled by
\* wait() and one that had requested its own stop
C1_Witness ==
    /\ ScopeLeft
    /\ Len(threads) = NumWorkers
    /\ hist.selfCalled
    /\ \E i \in 1..Len(threads) : stopping[threads[i]] /\ exc[threads[i]] = "ExitThread"

C4_HappyPathCancelsNoWorker ==
    (/\ ~hist.userStop
     /\ ~hist.selfCalled
     /\ \A t \in Threads : ~Failed(t)
     /\ ~groupStopping)
    => \A t \in Threads : exc[t] # "ExitThread" /\ (stopping[t] => done[t])

\* ------------------------------------------------------------------- C5
\* C5 (as stated): a stop(T) with T > 0 from another thread returns normally
\* only when the thread is done, and raises Timeout only while the thread is
\* still running.
C5_ReturnMeansDone ==
    [][\A c \in Extern :
          timeout[c] > 0 =>
             /\ (cpc'[c] = "ret" /\ cpc[c] # "ret") => done'[target[c]]
             /\ (cpc'[c] = "timeout" /\ cpc[c] # "timeout") => ~done'[target[c]]]_vars

\* C5 (amended): a stop(T) with T > 0 from another thread that has passed the
\* early-return guard ends either by returning normally, and then the thread
\* is done, or by raising Timeout; it never returns normally while the thread
\* is not done, and every wait it performs ends within the budget T.
C5_PassedStopWithinBudget ==
    \A c \in Extern :
        (timeout[c] > 0 /\ passed[c]) =>
            /\ cpc[c] = "ret" => done[target[c]]
            /\ cpc[c] # "error" /\ raising[c] \in {"none", "Timeout"}
            /\ cpc[c] = "timeout" => raising[c] = "Timeout"
            /\ waitLeft[c] >= 0
            /\ elapsed[c] + waitLeft[c] <= timeout[c]

\* a stop(T), T > 0, cancelled the thread and returned after it became done
C5_Witness ==
    \E c \in Extern :
        /\ timeout[c] > 0 /\ passed[c] /\ cpc[c] = "ret"
        /\ stopping[target[c]] /\ exc[target[c]] = "ExitThread"
        /\ elapsed[c] = 0 /\ calls = 1

\* ------------------------------------------------------------------- C6
\* C6: whenever a thread's stopping flag is set, the stopper holds the
\* thread's shield lock and the worker is outside every Shield section.
C6_StoppingSetUnderShieldLock ==
    [][\A t \in Threads :
          (stopping'[t] /\ ~stopping[t]) =>
              /\ \E c \in Callers : cpc[c] = "set_stopping" /\ target[c] = t /\ acquired[c]
              /\ ~InShield(t)]_vars

C8_RepeatedStopReturnsEarly ==
    \A c \in Extern : hist.repeat[c] => ~passed[c]

\* ------------------------------------------------------------------- C9
\* C9: stop() with timeout 0 never blocks: it is never waiting in join() for
\* a thread that has not ended.
C9_StopZeroNeverBlocks ==
    \A c \in Extern :
        timeout[c] = 0 => ~(cpc[c] = "join" /\ pc[target[c]] # "dead")

\* ------------------------------------------------------------------ C10
\* C10: a worker that calls stop() on its own thread never tries to acquire
\* its own shield lock and never joins itself, and nothing but ExitThread
\* propagates out of the call.
C10_SelfStopRaisesExitThread ==
    /\ cpc["self"] \notin {"sh_acq", "join"}
    /\ raising["self"] \in {"none", "ExitThread"}

\* ------------------------------------------------------------------ C11
\* C11: once stop() has set the stopping flag and called throw(), an
\* ExitThread is pending for a worker that is still executing user code, so
\* that the worker cannot go on with the statements that follow: while stop()
\* waits in join(), the worker is not in user code without a pending
\* ExitThread.
C11_ExitThreadDelivered ==
    \A c \in Extern :
        cpc[c] = "join" => asyncExc[target[c]] \/ pc[target[c]] # "run"

\* ------------------------------------------------------------------ C12
\* C12: when stop() followed by wait() has returned for a worker that was
\* cancelled, the Lock the worker held through the Lock wrapper is unlocked.
C12_LockUnlockedAfterStop ==
    \A c \in Extern :
        (cpc[c] = "waited" /\ exc[target[c]] = "ExitThread") => ~locked

\* C13: a put or get that starts after close() has returned fails with
\* ValueError("Channel is closed") before it touches the queue, so it enqueues
\* nothing and never waits; a getter that was blocked in Queue.get when the
\* shutdown ran is woken (the queue is shut, so its wake-up is enabled) and
\* fails with ShutDown; no call that starts on a closed channel succeeds.
\* (Closed is ValueError("Channel is closed") or queue.ShutDown.)
C13_ClosedChannelFails ==
    \A u \in Users :
        /\ (uAfter[u] /\ uop[u] \in {"put", "get"}) =>
              /\ upc[u] \in {"chk", "idle"}
              /\ upc[u] = "idle" => ures[u] = "ValueError"
        /\ uAfter[u] => upc[u] # "wait" /\ ures[u] # "ok"
        /\ uBlocked[u] =>
              /\ shut
              /\ upc[u] \in {"wait", "idle"}
              /\ upc[u] = "idle" => ures[u] = "ShutDown"
        /\ (uAfter[u] \/ uBlocked[u]) /\ upc[u] = "idle" /\ uop[u] \in {"put", "get"}
              => ures[u] \in {"ValueError", "ShutDown"}

\* a getter blocked at close() was woken with ShutDown and a later put failed
C13_Witness ==
    \E u, v \in Users :
        /\ uBlocked[u] /\ upc[u] = "idle" /\ ures[u] = "ShutDown"
        /\ uAfter[v] /\ uop[v] = "put" /\ upc[v] = "idle" /\ ures[v] = "ValueError"
        /\ shut /\ chanNone

\* C14: every close() call, also one on a Channel that is already closed,
\* returns without raising.
C14_CloseIsIdempotent ==
    \A u \in Users :
        (uop[u] = "close" /\ upc[u] = "idle") => ures[u] = "ok"

\* C15: while the Channel is open, the values returned by get followed by the
\* values still queued are the values in the order their puts enqueued them
\* (nothing lost, nothing delivered twice, oldest first); a getter waits only
\* on an empty queue; on_put_callback runs once for each put, after the value
\* was enqueued, and has run when the put returns.
C15_OpenChannelIsFifo ==
    /\ ~shut => gotLog \o queue = putLog
    /\ Len(gotLog) <= Len(putLog)
    /\ \A i \in 1..Len(gotLog) : gotLog[i] = putLog[i]
    /\ \A i \in 1..Len(cbLog) :
          /\ \E j \in 1..Len(putLog) : putLog[j] = cbLog[i]
          /\ \A j \in 1..Len(cbLog) : cbLog[j] = cbLog[i] => j = i
    /\ \A u \in Users :
          (uop[u] = "put" /\ upc[u] = "idle" /\ ures[u] = "ok") =>
              \E i \in 1..Len(cbLog) : cbLog[i] = uval[u]
    /\ Len(cbLog) <= Len(putLog)

\* two values were put and both were taken, the channel still open
C15_Witness ==
    /\ ~shut
    /\ Len(putLog) = 2 /\ Len(gotLog) = 2 /\ Len(cbLog) = 2
    /\ queue = <<>>

\* C16: a thread inside an iteration step (__next__) is never waiting in
\* Queue.get.
C16_IterationNeverBlocks ==
    \A u \in Users : uop[u] = "next" => upc[u] # "wait"

\* get_first has returned a value or raised
FirstEnded == gfpc \in {"returned", "raised"}

\* C17: when get_first has returned or raised, every fn's thread is done and
\* the Lock its threads used is unlocked.
C17_AllReleasedWhenFirstEnds ==
    FirstEnded =>
        /\ \A i \in 1..Len(threads) : done[threads[i]]
        /\ ~locked

DispatchEnded(t) == pc[t] \in {"fin", "setdone", "cb", "dead"}

\* C19: the worker calls the thunks in the order they were enqueued, one at
\* a time (every thunk but the one called last has finished and resolved its
\* future), and two thunks dispatched by the same thread are enqueued, hence
\* called, in the order that thread dispatched them.
C19_SubmissionOrderPreserved ==
    /\ Len(ran) <= Len(subLog)
    /\ \A i \in 1..Len(ran) : ran[i] = subLog[i]
    /\ \A i \in 1..Len(ran) : i < Len(ran) => fut[ran[i]] \in {"result", "exception"}
    /\ cur # 0 => ran # <<>> /\ cur = ran[Len(ran)]
    /\ \A i, j \in 1..Len(subLog) :
          (i < j /\ owner[subLog[i]] = owner[subLog[j]]) => subLog[i] < subLog[j]

\* three thunks of two threads were called; the thread that dispatched first
\* was not the first to enqueue
C19_Witness ==
    /\ Len(ran) >= 3
    /\ owner[ran[1]] # owner[ran[2]]
    /\ owner[ran[2]] = owner[ran[3]]
    /\ ran[1] # 1

C23_OneInvocationPerInstance ==
    \A u, v \in Users :
        (u # v /\ apc[u] = "body" /\ apc[v] = "body") => ainst[u] # ainst[v]

\* C24: a sleep that raised ExitThread was in a worker whose stopping flag is
\* set, and a sleep that returned had used up its budget.
C24_SleepRaisesOnlyWhenStopping ==
    \A t \in FirstWorker :
        /\ sres = "ExitThread" => stopping[t]
        /\ sres = "returned" => selapsed >= sbudget

\* C25: once run() has left its except clause with a user error (an exception
\* that is not shutdown-class), the error was forwarded to the exception
\* callback; run() has no other way to report it.
C25_UserErrorNeverDropped ==
    \A t \in FirstWorker :
        (pc[t] \in {"setdone", "cb", "dead"} /\ exc[t] = "Error") => exception[t]

\* C26: the done flag is set once and never cleared, an ExitThread is raised
\* in a worker only when its stopping flag is already set, and the stopping
\* flag is never set after the done flag.
C26_StoppingBeforeExitAndDone ==
    [][\A t \in FirstWorker :
          /\ done[t] => done'[t]
          /\ (~done[t] /\ done'[t]) => pc[t] = "setdone"
          /\ (exc[t] # "ExitThread" /\ exc'[t] = "ExitThread") => stopping[t]
          /\ (~stopping[t] /\ stopping'[t]) => ~done[t]]_vars

\* C27: an ExitThread is neither injected nor raised in a worker that holds
\* its internal lock in run()'s finally path or whose done flag is set, and a
\* worker that ends has set done and released the internal lock without error.
C27_InjectionExcludesTeardown ==
    [][\A t \in FirstWorker :
          /\ (~asyncExc[t] /\ asyncExc'[t]) =>
                (~done[t] /\ pc[t] \notin {"setdone", "cb"})
          /\ (exc[t] # "ExitThread" /\ exc'[t] = "ExitThread") =>
                (~done[t] /\ pc[t] \notin {"setdone", "cb"})
          /\ (pc[t] # "dead" /\ pc'[t] = "dead") =>
                (done'[t] /\ exc'[t] # "RuntimeError")]_vars

====
